---- MODULE Spec2Model ----
(***************************************************************************)
(* Model of the apk2abb command-line scripts: the bundletool fetcher       *)
(* (download_bundletool.py), the certificate manager (cert_manager.py),    *)
(* the APK->AAB converter (apk_to_aab.py) and the AAB analyzer             *)
(* (analyze_aab.py).  The scripts share only on-disk artifacts (the        *)
(* bundletool jar, the keystore, the output archives) and run one at a     *)
(* time.  Every external tool invocation is split in an invoke step and a  *)
(* return step, so that a tool that never returns is a behaviour of the    *)
(* model.                                                                  *)
(***************************************************************************)
EXTENDS Integers, Sequences, FiniteSets, TLC

\* ------------------------------------------------------------------ bounds
MaxRuns == 4      \* script runs / direct calls started in one behaviour
MaxLen == 5       \* longest input path of the path specification

\* --------------------------------------------------------------- strings
\* A string is a sequence of one-character strings.
Chars == {"a", " ", ".", "/", "_"}

RECURSIVE SeqsUpTo(_)
SeqsUpTo(n) ==
  IF n = 0 THEN {<<>>}
  ELSE LET S == SeqsUpTo(n - 1)
       IN  S \cup {Append(s, c) : s \in {t \in S : Len(t) = n - 1}, c \in Chars}

AllPaths == SeqsUpTo(MaxLen)

\* str.rfind(c): the last index of c in s, 0 when absent (1-based indices)
RFind(s, c) ==
  LET I == {i \in 1..Len(s) : s[i] = c}
  IN  IF I = {} THEN 0 ELSE CHOOSE i \in I : \A j \in I : j <= i

\* PurePath.name: the last path component; empty components and "." are
\* dropped by the path parser, so "d/" has name "d" and "." has name "".
RECURSIVE PathName(_)
PathName(s) ==
  LET k    == RFind(s, "/")
      last == SubSeq(s, k + 1, Len(s))
  IN  IF s = <<>> THEN <<>>
      ELSE IF last = <<>> \/ last = <<".">> THEN
             IF k = 0 THEN <<>> ELSE PathName(SubSeq(s, 1, k - 1))
      ELSE last

\* PurePath.stem: the name without its final suffix; a leading dot or a
\* trailing dot does not start a suffix (0 < i < len(name) - 1, 0-based).
PathStem(s) ==
  LET name == PathName(s)
      i    == RFind(name, ".")
  IN  IF 1 < i /\ i < Len(name) THEN SubSeq(name, 1, i - 1) ELSE name

\* str.replace(" ", "_") with only the first occurrence replaced
RECURSIVE ReplaceFirstSpace(_)
ReplaceFirstSpace(s) ==
  IF s = <<>> THEN <<>>
  ELSE IF Head(s) = " " THEN <<"_">> \o Tail(s)
  ELSE <<Head(s)>> \o ReplaceFirstSpace(Tail(s))

\* str.replace(" ", "_")
RECURSIVE ReplaceSpaces(_)
ReplaceSpaces(s) ==
  IF s = <<>> THEN <<>>
  ELSE <<(IF Head(s) = " " THEN "_" ELSE Head(s))>> \o ReplaceSpaces(Tail(s))

AabSuffix == <<".", "a", "a", "b">>

OutputDir == "output"

\* process_apk: output_aab = output_dir / (stem.replace(" ", "_") + ".aab")
OutputAab(apk) ==
  [dir |-> OutputDir, name |-> ReplaceSpaces(PathStem(apk)) \o AabSuffix]


\* ------------------------------------------------------------ file system
\* Paths given to the converter in the main specification.
ApkInputs == {<<"a", " ", "a", ".", "a">>, <<"a", "/", "a", ".", "a">>}

OutNames == {OutputAab(p).name : p \in ApkInputs}

NoOutput == [dir |-> OutputDir, name |-> <<>>]

\* arcnames written by convert_apk_to_aab
ApkEntry == "base/universal.apk"
ConfigEntry == "BundleConfig.pb"
BundleEntries == {ApkEntry, ConfigEntry}

\* entries jarsigner adds to the archive it signs in place (the signature
\* file names are the first eight characters of the alias, upper-cased)
SignatureEntries ==
  {"META-INF/MANIFEST.MF", "META-INF/IOT_MARK.SF", "META-INF/IOT_MARK.RSA"}

NoFile == [exists |-> FALSE, entries |-> {}]
File(es) == [exists |-> TRUE, entries |-> es]

\* the three requirement checks, in the order of check_requirements
RequirementOrder == <<"java", "jar", "keystore">>

VARIABLES
  script,          \* the script (or library call) that is running, or "none"
  pc,              \* its position
  runs,            \* runs started so far
  jarExists,       \* tools/bundletool.jar exists
  keystoreExists,  \* certs/iot_marketplace_app.keystore exists
  keystoreWrites,  \* times the keystore file has been written
  genCalls,        \* times keytool -genkey has been invoked
  outputs,         \* output/<name>: the archives in the output directory
  tmpdir,          \* the TemporaryDirectory of convert_apk_to_aab exists
  apk_path,        \* process_apk's argument
  apkExists,       \* the file at apk_path exists
  sign,            \* "--no-sign" not in argv
  output_aab,      \* process_apk's output path
  checks,          \* requirement checks performed in this run, in order
  reqFail,         \* the requirement check that failed, or "none"
  built,           \* this run has written the output archive
  log,             \* entries appended to the script's log file in this run
  console,         \* lines printed with print() only
  ops,             \* tool invocations and file operations of this run
  result,          \* return value of the operation: "none", "True", "False"
  exitStatus,      \* exit status of the script, -1 while none
  ksAtEntry,       \* the keystore existed when create_keystore was entered
  aabKind          \* what the analyzer's argument is on disk

vars ==
  <<script, pc, runs, jarExists, keystoreExists, keystoreWrites, genCalls,
    outputs, tmpdir, apk_path, apkExists, sign, output_aab, checks, reqFail,
    built, log, console, ops, result, exitStatus, ksAtEntry, aabKind>>

keystoreVars == <<keystoreExists, keystoreWrites, genCalls, ksAtEntry>>
converterVars ==
  <<outputs, tmpdir, apk_path, apkExists, sign, output_aab, checks, reqFail,
    built>>
analyzerVars == <<console, aabKind>>

\* Before any script has run: a fresh checkout, with no jar, no keystore
\* and an empty output directory.
InitOf(path) ==
  /\ script = "none"
  /\ pc = "idle"
  /\ runs = 0
  /\ jarExists = FALSE
  /\ keystoreExists = FALSE
  /\ keystoreWrites = 0
  /\ genCalls = 0
  /\ outputs = [n \in OutNames |-> NoFile]
  /\ tmpdir = FALSE
  /\ apk_path = path
  /\ apkExists = FALSE
  /\ sign = TRUE
  /\ output_aab = NoOutput
  /\ checks = <<>>
  /\ reqFail = "none"
  /\ built = FALSE
  /\ log = <<>>
  /\ console = <<>>
  /\ ops = <<>>
  /\ result = "none"
  /\ exitStatus = -1
  /\ ksAtEntry = FALSE
  /\ aabKind = "missing"

Init == InitOf(<<>>)

\* A new process (or library call) starts; the previous one has ended and
\* nothing of it is left but the files on disk.
Begin(s) ==
  /\ script = "none"
  /\ runs < MaxRuns
  /\ script' = s
  /\ runs' = runs + 1

\* sys.exit(status), or falling off the end of main(): status 0
Exit(status) ==
  /\ pc' = "exit"
  /\ exitStatus' = status

\* The process has ended (the call has returned): its memory is gone.
Finish ==
  /\ pc = "exit"
  /\ script' = "none"
  /\ pc' = "idle"
  /\ apk_path' = <<>>
  /\ apkExists' = FALSE
  /\ sign' = TRUE
  /\ output_aab' = NoOutput
  /\ checks' = <<>>
  /\ reqFail' = "none"
  /\ built' = FALSE
  /\ log' = <<>>
  /\ console' = <<>>
  /\ ops' = <<>>
  /\ result' = "none"
  /\ exitStatus' = -1
  /\ ksAtEntry' = FALSE
  /\ aabKind' = "missing"
  /\ UNCHANGED <<runs, jarExists, keystoreExists, keystoreWrites, genCalls,
                 outputs, tmpdir>>

Banner == <<"rule", "title", "rule">>

\* ------------------------------------------- download_bundletool.py
\* main(): the banner, then check_java() runs "java -version" (os.system)
FetcherStart ==
  /\ Begin("fetcher")
  /\ log' = Banner
  /\ ops' = <<"java">>
  /\ pc' = "f_java_wait"
  /\ UNCHANGED <<jarExists, keystoreVars, converterVars, analyzerVars,
                 result, exitStatus>>

\* download_bundletool() without its "already exists" test
FetcherJavaReturn_NoExistsTest(ret) ==
  /\ script = "fetcher" /\ pc = "f_java_wait"
  /\ IF ret # 0 THEN
       /\ log' = Append(log, "java_missing")
       /\ result' = "False"
       /\ Exit(1)
       /\ ops' = ops
     ELSE
       /\ log' = log \o <<"java_ok", "downloading">>
       /\ ops' = Append(ops, "urlretrieve")
       /\ pc' = "f_dl_wait"
       /\ UNCHANGED <<result, exitStatus>>
  /\ UNCHANGED <<script, runs, jarExists, keystoreVars, converterVars,
                 analyzerVars>>

\* "java -version" has returned ret; on success download_bundletool() is
\* entered: it returns True at once when the jar exists and starts
\* urlretrieve otherwise.
FetcherJavaReturn(ret) ==
  /\ script = "fetcher" /\ pc = "f_java_wait"
  /\ IF ret # 0 THEN
       /\ log' = Append(log, "java_missing")
       /\ result' = "False"
       /\ Exit(1)
       /\ ops' = ops
     ELSE IF jarExists THEN
       /\ log' = log \o <<"java_ok", "jar_already_exists">> \o
                 <<"rule", "setup_completed", "rule">>
       /\ result' = "True"
       /\ Exit(0)
       /\ ops' = ops
     ELSE
       /\ log' = log \o <<"java_ok", "downloading">>
       /\ ops' = Append(ops, "urlretrieve")
       /\ pc' = "f_dl_wait"
       /\ UNCHANGED <<result, exitStatus>>
  /\ UNCHANGED <<script, runs, jarExists, keystoreVars, converterVars,
                 analyzerVars>>

\* urlretrieve has returned (ok) or raised; a failed download may leave a
\* partial file at the target path.
FetcherDownloadReturn(ok, partial) ==
  /\ script = "fetcher" /\ pc = "f_dl_wait"
  /\ IF ok THEN
       /\ jarExists' = TRUE
       /\ log' = log \o <<"downloaded", "rule", "setup_completed", "rule">>
       /\ result' = "True"
       /\ Exit(0)
     ELSE
       /\ jarExists' = partial
       /\ log' = Append(log, "download_failed")
       /\ result' = "False"
       /\ Exit(1)
  /\ UNCHANGED <<script, runs, keystoreVars, converterVars, analyzerVars,
                 ops>>

\* ------------------------------------------------------ cert_manager.py
\* Leaving an operation of the certificate manager: main() exits with the
\* given status, a library call just returns.
CertLeave(s, status) ==
  /\ pc' = "exit"
  /\ exitStatus' = IF s = "cert" THEN status ELSE exitStatus

\* create_keystore() without its "already exists" test
CreateKeystore_NoExistsTest(prefix) ==
  /\ ksAtEntry' = keystoreExists
  /\ log' = prefix \o <<"creating_keystore">>
  /\ ops' = Append(ops, "keytool-genkey")
  /\ genCalls' = genCalls + 1
  /\ pc' = "c_gen_wait"
  /\ UNCHANGED <<result, exitStatus>>

\* create_keystore() up to the invocation of keytool -genkey; prefix is
\* what the caller has logged before.  When the keystore exists it returns
\* True at once (main() then goes on to list_keystore_info).
CreateKeystore(prefix) ==
  /\ ksAtEntry' = keystoreExists
  /\ IF keystoreExists THEN
       /\ result' = "True"
       /\ genCalls' = genCalls
       /\ IF script' = "cert" THEN
            /\ log' = prefix \o <<"keystore_already_exists", "setup_completed">>
            /\ ops' = Append(ops, "keytool-list")
            /\ pc' = "c_list_wait"
            /\ exitStatus' = exitStatus
          ELSE
            /\ log' = prefix \o <<"keystore_already_exists">>
            /\ ops' = ops
            /\ CertLeave(script', 0)
     ELSE
       /\ log' = prefix \o <<"creating_keystore">>
       /\ ops' = Append(ops, "keytool-genkey")
       /\ genCalls' = genCalls + 1
       /\ pc' = "c_gen_wait"
       /\ UNCHANGED <<result, exitStatus>>

\* main(): the banner; create_keystore() when the keystore is missing;
\* then list_keystore_info() runs keytool -list
CertStart ==
  /\ Begin("cert")
  /\ IF ~keystoreExists THEN
       CreateKeystore(Banner)
     ELSE
       /\ log' = Banner
       /\ ops' = <<"keytool-list">>
       /\ pc' = "c_list_wait"
       /\ UNCHANGED <<genCalls, ksAtEntry, result, exitStatus>>
  /\ UNCHANGED <<jarExists, keystoreExists, keystoreWrites, converterVars,
                 analyzerVars>>

\* create_keystore() called on the keystore path as a library function
CreateKeystoreCall ==
  /\ Begin("create_keystore")
  /\ CreateKeystore(<<>>)
  /\ UNCHANGED <<jarExists, keystoreExists, keystoreWrites, converterVars,
                 analyzerVars>>

\* What create_keystore() does once subprocess.run is over: created is
\* "keytool exited with 0", written is "the keystore file is on disk",
\* failure is the entry logged otherwise (it carries stderr or the text of
\* the exception).
AfterKeytoolGen(created, written, failure) ==
  /\ script \in {"cert", "create_keystore"} /\ pc = "c_gen_wait"
  /\ keystoreExists' = (keystoreExists \/ written)
  /\ keystoreWrites' = IF written THEN keystoreWrites + 1 ELSE keystoreWrites
  /\ IF created THEN
       /\ result' = "True"
       /\ IF script = "cert" THEN
            /\ log' = log \o <<"keystore_created", "location", "alias",
                               "setup_completed">>
            /\ ops' = Append(ops, "keytool-list")
            /\ pc' = "c_list_wait"
            /\ exitStatus' = exitStatus
          ELSE
            /\ log' = log \o <<"keystore_created", "location", "alias">>
            /\ ops' = ops
            /\ CertLeave(script, 0)
     ELSE
       /\ log' = Append(log, failure)
       /\ ops' = ops
       /\ result' = "False"
       /\ CertLeave(script, 1)
  /\ UNCHANGED <<script, runs, jarExists, genCalls, ksAtEntry, converterVars,
                 analyzerVars>>

\* keytool -genkey has exited (with 0: the keystore is written), or
\* subprocess.run has raised
KeytoolGenReturn(outcome) ==
  /\ outcome \in {"ok", "nonzero", "exception"}
  /\ AfterKeytoolGen(outcome = "ok", outcome = "ok",
                     IF outcome = "nonzero" THEN "keystore_creation_failed"
                     ELSE "error_creating_keystore")

\* timeout=30 has expired: keytool is killed and TimeoutExpired is caught;
\* the kill may come just after keytool has written the file
KeytoolGenTimeout(written) ==
  /\ written \in BOOLEAN
  /\ AfterKeytoolGen(FALSE, written, "error_creating_keystore_timeout")

\* list_keystore_info(): keytool -list has exited or subprocess.run has
\* raised; main() ignores the result, logs the closing rule and ends.
KeytoolListReturn(outcome) ==
  /\ outcome \in {"ok", "nonzero", "exception"}
  /\ script = "cert" /\ pc = "c_list_wait"
  /\ log' = log \o <<(CASE outcome = "ok" -> "keystore_information"
                        [] outcome = "nonzero" -> "failed_to_read_keystore"
                        [] OTHER -> "error_reading_keystore"), "rule">>
  /\ console' = IF outcome = "ok" THEN Append(console, "keytool_stdout")
                ELSE console
  /\ result' = IF outcome = "ok" THEN "True" ELSE "False"
  /\ Exit(0)
  /\ UNCHANGED <<script, runs, jarExists, keystoreVars, converterVars,
                 aabKind, ops>>

\* validate_keystore() called as a library function
ValidateKeystoreCall ==
  /\ Begin("validate_keystore")
  /\ IF ~keystoreExists THEN
       /\ log' = <<"keystore_not_found">>
       /\ result' = "False"
       /\ ops' = ops
       /\ pc' = "exit"
     ELSE
       /\ log' = log
       /\ result' = result
       /\ ops' = <<"keytool-validate">>
       /\ pc' = "c_val_wait"
  /\ UNCHANGED <<jarExists, keystoreVars, converterVars, analyzerVars,
                 exitStatus>>

\* keytool -list -alias has exited or subprocess.run has raised
KeytoolValidateReturn(outcome) ==
  /\ outcome \in {"ok", "nonzero", "exception"}
  /\ script = "validate_keystore" /\ pc = "c_val_wait"
  /\ log' = Append(log, CASE outcome = "ok" -> "keystore_validated"
                          [] outcome = "nonzero" -> "keystore_validation_failed"
                          [] OTHER -> "error_validating_keystore")
  /\ result' = IF outcome = "ok" THEN "True" ELSE "False"
  /\ pc' = "exit"
  /\ UNCHANGED <<script, runs, jarExists, keystoreVars, converterVars,
                 analyzerVars, ops, exitStatus>>

\* -------------------------------------------------------- apk_to_aab.py
Has(seq, x) == \E i \in 1..Len(seq) : seq[i] = x
Count(seq, x) == Cardinality({i \in 1..Len(seq) : seq[i] = x})

Completion == <<"rule", "conversion_completed", "output", "rule">>

\* main() with an argument: the constructor, then process_apk() logs the
\* banner and check_requirements() runs "java -version" (os.system)
ConverterStart(apk, sgn, present) ==
  /\ Begin("converter")
  /\ apk_path' = apk
  /\ apkExists' = present
  /\ sign' = sgn
  /\ log' = Banner \o <<"checking_requirements">>
  /\ checks' = <<"java">>
  /\ ops' = <<"java">>
  /\ pc' = "k_java_wait"
  /\ UNCHANGED <<jarExists, keystoreVars, outputs, tmpdir, output_aab,
                 reqFail, built, analyzerVars, result, exitStatus>>

\* main() without an argument: usage is printed, sys.exit(1)
ConverterUsage ==
  /\ Begin("converter")
  /\ console' = <<"usage", "example">>
  /\ Exit(1)
  /\ UNCHANGED <<jarExists, keystoreVars, converterVars, aabKind, log, ops,
                 result>>

\* check_requirements(): "java -version" has returned ret
ConvJavaReturn(ret) ==
  /\ script = "converter" /\ pc = "k_java_wait"
  /\ IF ret # 0 THEN
       /\ log' = Append(log, "java_missing")
       /\ reqFail' = "java"
       /\ result' = "False"
       /\ Exit(1)
     ELSE
       /\ log' = Append(log, "java_ok")
       /\ pc' = "k_check_files"
       /\ UNCHANGED <<reqFail, result, exitStatus>>
  /\ UNCHANGED <<script, runs, jarExists, keystoreVars, outputs, tmpdir,
                 apk_path, apkExists, sign, output_aab, checks, built,
                 analyzerVars, ops>>

\* check_requirements() going on after a missing keystore
ConvCheckFiles_NoKeystoreAbort ==
  /\ script = "converter" /\ pc = "k_check_files"
  /\ IF ~jarExists THEN
       /\ checks' = Append(checks, "jar")
       /\ log' = Append(log, "bundletool_not_found")
       /\ reqFail' = "jar"
       /\ result' = "False"
       /\ Exit(1)
       /\ output_aab' = output_aab
     ELSE
       /\ checks' = checks \o <<"jar", "keystore">>
       /\ log' = log \o <<"bundletool_found",
                          (IF keystoreExists THEN "keystore_found"
                           ELSE "keystore_not_found")>>
       /\ reqFail' = IF keystoreExists THEN reqFail ELSE "keystore"
       /\ output_aab' = OutputAab(apk_path)
       /\ pc' = "k_convert"
       /\ UNCHANGED <<result, exitStatus>>
  /\ UNCHANGED <<script, runs, jarExists, keystoreVars, outputs, tmpdir,
                 apk_path, apkExists, sign, built, analyzerVars, ops>>

\* check_requirements() after Java: the bundletool jar, then the keystore;
\* when both exist process_apk() derives the output path.
ConvCheckFiles ==
  /\ script = "converter" /\ pc = "k_check_files"
  /\ IF ~jarExists THEN
       /\ checks' = Append(checks, "jar")
       /\ log' = Append(log, "bundletool_not_found")
       /\ reqFail' = "jar"
       /\ result' = "False"
       /\ Exit(1)
       /\ output_aab' = output_aab
     ELSE IF ~keystoreExists THEN
       /\ checks' = checks \o <<"jar", "keystore">>
       /\ log' = log \o <<"bundletool_found", "keystore_not_found">>
       /\ reqFail' = "keystore"
       /\ result' = "False"
       /\ Exit(1)
       /\ output_aab' = output_aab
     ELSE
       /\ checks' = checks \o <<"jar", "keystore">>
       /\ log' = log \o <<"bundletool_found", "keystore_found">>
       /\ reqFail' = reqFail
       /\ output_aab' = OutputAab(apk_path)
       /\ pc' = "k_convert"
       /\ UNCHANGED <<result, exitStatus>>
  /\ UNCHANGED <<script, runs, jarExists, keystoreVars, outputs, tmpdir,
                 apk_path, apkExists, sign, built, analyzerVars, ops>>

\* convert_apk_to_aab() up to the zip: the APK must exist; the temporary
\* directory is created, the APK copied into base/ and the config written.
\* An exception of the copy leaves the with block (the directory is
\* removed) and is caught nowhere: the script dies with status 1.
ConvStage(copyOk) ==
  /\ script = "converter" /\ pc = "k_convert"
  /\ IF ~apkExists THEN
       /\ log' = Append(log, "apk_not_found")
       /\ result' = "False"
       /\ Exit(1)
       /\ UNCHANGED <<tmpdir, ops>>
     ELSE IF copyOk THEN
       /\ tmpdir' = TRUE
       /\ ops' = Append(ops, "mkdtemp")
       /\ log' = log \o <<"converting", "input", "output", "step_1",
                          "module_prepared", "step_2">>
       /\ pc' = "k_zip"
       /\ UNCHANGED <<result, exitStatus>>
     ELSE
       /\ tmpdir' = FALSE
       /\ ops' = Append(ops, "mkdtemp")
       /\ log' = log \o <<"converting", "input", "output", "step_1">>
       /\ result' = "raised"
       /\ Exit(1)
  /\ UNCHANGED <<script, runs, jarExists, keystoreVars, outputs, apk_path,
                 apkExists, sign, output_aab, checks, reqFail, built,
                 analyzerVars>>

\* get_bundle_info() up to the invocation of bundletool; prefix is what has
\* been logged in this step before.  When the archive is missing it returns
\* False, which process_apk() ignores: the run completes.
GetBundleInfo(prefix) ==
  IF outputs'[output_aab.name].exists THEN
    /\ log' = log \o prefix \o <<"aab_information">>
    /\ ops' = Append(ops, "bundletool")
    /\ pc' = "k_info_wait"
    /\ UNCHANGED <<result, exitStatus>>
  ELSE
    /\ log' = log \o prefix \o <<"aab_not_found">> \o Completion
    /\ ops' = ops
    /\ result' = "True"
    /\ Exit(0)

\* process_apk() after convert_apk_to_aab() has returned True: sign_aab()
\* up to the invocation of jarsigner when signing is requested, else
\* get_bundle_info()
AfterConvert(prefix) ==
  IF sign THEN
    /\ log' = log \o prefix \o <<"signing", "input", "output">>
    /\ ops' = Append(ops, "jarsigner")
    /\ pc' = "k_sign_wait"
    /\ UNCHANGED <<result, exitStatus>>
  ELSE GetBundleInfo(prefix)

\* The zip step of convert_apk_to_aab() and the end of the with block.
\* outcome "ok": both entries are written; "error": ZipFile or a write has
\* raised, leaving what `left` says at the output path; "removed": the
\* archive was written but is gone when its existence is verified.
\* entries are the arcnames written, cleanup is whether leaving the with
\* block on the error path removes the temporary directory.
ZipStep(outcome, left, entries, cleanup) ==
  /\ outcome \in {"ok", "error", "removed"}
  /\ left \in {"unchanged", "empty", "apk_only"}
  /\ script = "converter" /\ pc = "k_zip"
  /\ CASE outcome = "ok" ->
          /\ outputs' = [outputs EXCEPT ![output_aab.name] = File(entries)]
          /\ tmpdir' = FALSE
          /\ built' = TRUE
          /\ AfterConvert(<<"aab_structure_created", "aab_created">>)
       [] outcome = "error" ->
          /\ outputs' = [outputs EXCEPT ![output_aab.name] =
                           CASE left = "unchanged" -> @
                             [] left = "empty" -> File({})
                             [] OTHER -> File({ApkEntry})]
          /\ tmpdir' = ~cleanup
          /\ built' = FALSE
          /\ log' = Append(log, "aab_creation_failed")
          /\ ops' = ops
          /\ result' = "False"
          /\ Exit(1)
       [] OTHER ->
          /\ outputs' = [outputs EXCEPT ![output_aab.name] = NoFile]
          /\ tmpdir' = FALSE
          /\ built' = TRUE
          /\ log' = log \o <<"aab_structure_created", "aab_not_created">>
          /\ ops' = ops
          /\ result' = "False"
          /\ Exit(1)
  /\ UNCHANGED <<script, runs, jarExists, keystoreVars, apk_path, apkExists,
                 sign, output_aab, checks, reqFail, analyzerVars>>

\* the "return False" of the except clause skipping the directory's removal
ConvZip_LeakTmp(outcome, left) ==
  /\ pc = "k_zip"
  /\ ZipStep(outcome, left, BundleEntries, FALSE)

\* the config file archived under its staging path (no arcname)
ConvZip_ConfigInBase(outcome, left) ==
  /\ pc = "k_zip"
  /\ ZipStep(outcome, left, {ApkEntry, "base/BundleConfig.pb"}, TRUE)

ConvZip(outcome, left) ==
  /\ pc = "k_zip"
  /\ ZipStep(outcome, left, BundleEntries, TRUE)

\* What process_apk() does once the subprocess.run of sign_aab() is over:
\* signedOk is "jarsigner exited with 0", archiveSigned is "the archive has
\* been rewritten with the signature entries".  fatal is whether a failed
\* signing ends the run.
AfterSign(signedOk, archiveSigned, failure, fatal) ==
  /\ script = "converter" /\ pc = "k_sign_wait"
  /\ outputs' = IF archiveSigned
                THEN [outputs EXCEPT ![output_aab.name] =
                        File(@.entries \cup SignatureEntries)]
                ELSE outputs
  /\ IF signedOk THEN GetBundleInfo(<<"aab_signed">>)
     ELSE IF fatal THEN
       /\ log' = log \o <<failure, "warn_signing_failed">>
       /\ ops' = ops
       /\ result' = "False"
       /\ Exit(1)
     ELSE GetBundleInfo(<<failure, "warn_signing_failed">>)
  /\ UNCHANGED <<script, runs, jarExists, keystoreVars, tmpdir, apk_path,
                 apkExists, sign, output_aab, checks, reqFail, built,
                 analyzerVars>>

\* a failed signing returning False from process_apk()
ConvSignReturn_Fatal(outcome) ==
  /\ outcome \in {"ok", "nonzero", "exception"}
  /\ AfterSign(outcome = "ok", outcome = "ok",
               IF outcome = "nonzero" THEN "signing_failed_stderr"
               ELSE "signing_failed_exception", TRUE)

\* jarsigner has exited (with 0: the archive is signed in place) or
\* subprocess.run has raised
ConvSignReturn(outcome) ==
  /\ outcome \in {"ok", "nonzero", "exception"}
  /\ AfterSign(outcome = "ok", outcome = "ok",
               IF outcome = "nonzero" THEN "signing_failed_stderr"
               ELSE "signing_failed_exception", FALSE)

\* timeout=120 has expired: jarsigner is killed and TimeoutExpired is
\* caught; the kill may come just after the archive has been replaced
ConvSignTimeout(signed) ==
  /\ signed \in BOOLEAN
  /\ AfterSign(FALSE, signed, "signing_failed_timeout", FALSE)

\* What process_apk() does once the subprocess.run of get_bundle_info() is
\* over: its outcome is logged and the run completes.
AfterInfo(entry) ==
  /\ script = "converter" /\ pc = "k_info_wait"
  /\ log' = log \o <<entry>> \o Completion
  /\ result' = "True"
  /\ Exit(0)
  /\ UNCHANGED <<script, runs, jarExists, keystoreVars, converterVars,
                 analyzerVars, ops>>

\* bundletool dump manifest has exited or subprocess.run has raised
ConvInfoReturn(outcome) ==
  /\ outcome \in {"ok", "nonzero", "exception"}
  /\ AfterInfo(CASE outcome = "ok" -> "manifest"
                 [] outcome = "nonzero" -> "could_not_read_manifest"
                 [] OTHER -> "failed_to_get_info")

\* timeout=30 has expired: TimeoutExpired is caught in get_bundle_info()
ConvInfoTimeout ==
  /\ pc = "k_info_wait"
  /\ AfterInfo("failed_to_get_info_timeout")

\* -------------------------------------------------------- analyze_aab.py
FileKinds == {"missing", "notzip", "zip", "unreadable"}

\* main() with an argument: analyze_aab() tests that the file exists, then
\* stats it and prints the file details
AnalyzerStart(kind) ==
  /\ kind \in FileKinds
  /\ Begin("analyzer")
  /\ aabKind' = kind
  /\ IF kind = "missing" THEN
       /\ ops' = <<"exists">>
       /\ console' = <<"aab_not_found">>
       /\ result' = "False"
       /\ Exit(1)
     ELSE
       /\ ops' = <<"exists", "stat">>
       /\ console' = <<"rule", "title", "rule", "file_details", "size",
                       "modified", "permissions">>
       /\ pc' = "a_open"
       /\ UNCHANGED <<result, exitStatus>>
  /\ UNCHANGED <<jarExists, keystoreVars, converterVars, log>>

\* main() without an argument: usage is printed, sys.exit(1)
AnalyzerUsage ==
  /\ Begin("analyzer")
  /\ console' = <<"usage", "example">>
  /\ Exit(1)
  /\ UNCHANGED <<jarExists, keystoreVars, converterVars, aabKind, log, ops,
                 result>>

\* BadZipFile falling through to the generic handler
AnalyzerOpen_GenericHandler ==
  /\ script = "analyzer" /\ pc = "a_open"
  /\ ops' = Append(ops, "zipopen")
  /\ IF aabKind = "zip" THEN
       /\ console' = console \o <<"archive_contents", "modules", "aab_valid">>
       /\ result' = "True"
       /\ Exit(0)
     ELSE
       /\ console' = Append(console, "error_analyzing")
       /\ result' = "False"
       /\ Exit(1)
  /\ UNCHANGED <<script, runs, jarExists, keystoreVars, converterVars,
                 aabKind, log>>

\* analyze_aab(): the file is opened as a zip and its names are listed and
\* grouped; BadZipFile and any other exception have their own message
AnalyzerOpen ==
  /\ script = "analyzer" /\ pc = "a_open"
  /\ ops' = Append(ops, "zipopen")
  /\ CASE aabKind = "zip" ->
          /\ console' = console \o <<"archive_contents", "modules",
                                     "aab_valid">>
          /\ result' = "True"
          /\ Exit(0)
       [] aabKind = "notzip" ->
          /\ console' = Append(console, "not_a_valid_zip")
          /\ result' = "False"
          /\ Exit(1)
       [] OTHER ->
          /\ console' = Append(console, "error_analyzing")
          /\ result' = "False"
          /\ Exit(1)
  /\ UNCHANGED <<script, runs, jarExists, keystoreVars, converterVars,
                 aabKind, log>>

\* --------------------------------------------------------- specifications
Next ==
  \/ FetcherStart
  \/ \E ret \in {0, 1} : FetcherJavaReturn(ret)
  \/ \E ok \in BOOLEAN, partial \in BOOLEAN : FetcherDownloadReturn(ok, partial)
  \/ CertStart
  \/ CreateKeystoreCall
  \/ \E o \in {"ok", "nonzero", "exception"} : KeytoolGenReturn(o)
  \/ \E written \in BOOLEAN : KeytoolGenTimeout(written)
  \/ \E o \in {"ok", "nonzero", "exception"} : KeytoolListReturn(o)
  \/ ValidateKeystoreCall
  \/ \E o \in {"ok", "nonzero", "exception"} : KeytoolValidateReturn(o)
  \/ \E apk \in ApkInputs, sgn \in BOOLEAN, present \in BOOLEAN :
       ConverterStart(apk, sgn, present)
  \/ ConverterUsage
  \/ \E ret \in {0, 1} : ConvJavaReturn(ret)
  \/ ConvCheckFiles
  \/ \E copyOk \in BOOLEAN : ConvStage(copyOk)
  \/ \E o \in {"ok", "error", "removed"},
        left \in {"unchanged", "empty", "apk_only"} : ConvZip(o, left)
  \/ \E o \in {"ok", "nonzero", "exception"} : ConvSignReturn(o)
  \/ \E signed \in BOOLEAN : ConvSignTimeout(signed)
  \/ \E o \in {"ok", "nonzero", "exception"} : ConvInfoReturn(o)
  \/ ConvInfoTimeout
  \/ \E kind \in FileKinds : AnalyzerStart(kind)
  \/ AnalyzerUsage
  \/ AnalyzerOpen
  \/ Finish

Spec == Init /\ [][Next]_vars

\* The steps a running script takes by itself, and the timeouts that
\* subprocess.run enforces, always happen; nothing makes an external tool
\* (or the download) return, or a user start a script.
LiveSpec ==
  /\ Spec
  /\ WF_vars(ConvCheckFiles)
  /\ WF_vars(\E copyOk \in BOOLEAN : ConvStage(copyOk))
  /\ WF_vars(\E o \in {"ok", "error", "removed"},
                left \in {"unchanged", "empty", "apk_only"} : ConvZip(o, left))
  /\ WF_vars(AnalyzerOpen)
  /\ WF_vars(Finish)
  /\ WF_vars(\E written \in BOOLEAN : KeytoolGenTimeout(written))
  /\ WF_vars(\E signed \in BOOLEAN : ConvSignTimeout(signed))
  /\ WF_vars(ConvInfoTimeout)

\* The path specification: process_apk() is handed any path of at most
\* MaxLen characters and derives the output path from it.
PathInit == \E p \in AllPaths : InitOf(p)

DeriveOutput ==
  /\ pc = "idle"
  /\ output_aab = NoOutput
  /\ pc' = "derived"
  /\ output_aab' = OutputAab(apk_path)
  /\ UNCHANGED <<script, runs, jarExists, keystoreVars, outputs, tmpdir,
                 apk_path, apkExists, sign, checks, reqFail, built, log,
                 console, ops, result, exitStatus, aabKind>>

PathNext == DeriveOutput

PathSpec == PathInit /\ [][PathNext]_vars

\* ================================================================ claims
ConverterRan == script = "converter" /\ ops # <<>>
OutputFile == outputs[output_aab.name]

\* C1: in process_apk the requirement checks run in the order Java, jar,
\* keystore; the first failing check is the last one performed, and after it
\* no archive is built, no temporary directory is made, neither jarsigner nor
\* bundletool is invoked, process_apk returns False and the script exits
\* with status 1.  A run with the keystore missing never gets past the
\* requirement check, whether or not signing is requested.
C1_RequirementAbort ==
  script = "converter" =>
    /\ \E n \in 0..Len(RequirementOrder) :
         checks = SubSeq(RequirementOrder, 1, n)
    /\ reqFail # "none" =>
         /\ checks # <<>> /\ checks[Len(checks)] = reqFail
         /\ ~built
         /\ output_aab = NoOutput
         /\ ops = <<"java">>
         /\ pc = "exit" /\ result = "False" /\ exitStatus = 1
    /\ (ConverterRan /\ ~keystoreExists /\ pc \notin {"k_java_wait", "k_check_files"})
         => reqFail # "none"
    /\ (Has(ops, "mkdtemp") \/ pc = "k_convert") =>
         reqFail = "none" /\ checks = RequirementOrder

\* C1 witness: signing requested, Java and the jar found, keystore missing
C1_Witness ==
  /\ script = "converter" /\ sign /\ pc = "exit"
  /\ reqFail = "keystore" /\ checks = RequirementOrder
  /\ jarExists /\ ~keystoreExists /\ exitStatus = 1

SigningFailed ==
  \/ Has(log, "signing_failed_stderr")
  \/ Has(log, "signing_failed_exception")
  \/ Has(log, "signing_failed_timeout")

\* C2: once the requirement check has passed and convert_apk_to_aab has
\* returned True, the archive exists at the output path and the run can only
\* end with process_apk returning True and exit status 0, whatever the
\* signing stage and the info dump do; a failed signing leaves a warning in
\* the log and is followed by the info dump.
C2_NonFatalStages ==
  (script = "converter" /\ Has(log, "aab_created")) =>
    /\ reqFail = "none" /\ built
    /\ OutputFile.exists
    /\ pc \in {"k_sign_wait", "k_info_wait", "exit"}
    /\ pc = "exit" =>
         /\ result = "True" /\ exitStatus = 0
         /\ Has(ops, "bundletool")
    /\ SigningFailed =>
         /\ Has(log, "warn_signing_failed")
         /\ Has(ops, "bundletool")

\* C2 witness: jarsigner exits non-zero, the manifest dump times out, and
\* the run still ends with True
C2_Witness ==
  /\ script = "converter" /\ pc = "exit"
  /\ Has(log, "signing_failed_stderr")
  /\ Has(log, "failed_to_get_info_timeout")
  /\ result = "True" /\ exitStatus = 0

\* C3: a temporary directory exists only while convert_apk_to_aab is inside
\* its with block; it is gone when the call has returned True, returned
\* False, or been left by an exception, and a call makes at most one.
C3_TmpDirRemoved ==
  /\ tmpdir => (script = "converter" /\ pc = "k_zip")
  /\ Count(ops, "mkdtemp") <= 1
  /\ (script = "converter" /\ pc = "k_zip") => Has(ops, "mkdtemp")

\* C3 witness: the call that made the directory has returned False because
\* the archive creation raised
C3_Witness ==
  /\ script = "converter" /\ pc = "exit" /\ result = "False"
  /\ Has(ops, "mkdtemp") /\ Has(log, "aab_creation_failed")
  /\ ~tmpdir

\* C4: a create_keystore call entered while the keystore file exists
\* returns True without invoking keytool; a call entered while it is
\* missing invokes keytool -genkey exactly once; once the file exists
\* keytool -genkey is never invoked and the file never written again, so
\* an existing keystore has been written exactly once.
C4_CreateOnce ==
  /\ [](keystoreWrites = IF keystoreExists THEN 1 ELSE 0)
  /\ [](script = "create_keystore" =>
          IF ksAtEntry
          THEN pc = "exit" /\ result = "True" /\ ops = <<>>
          ELSE Count(ops, "keytool-genkey") = 1)
  /\ [][keystoreExists =>
          genCalls' = genCalls /\ keystoreWrites' = keystoreWrites]_vars

\* C4 witness: a call made on the existing keystore, after the one call of
\* keytool that created it
C4_Witness ==
  /\ script = "create_keystore" /\ ksAtEntry /\ pc = "exit"
  /\ genCalls = 1 /\ keystoreWrites = 1

\* C5: the fetcher starts a download only after the Java check has passed
\* and with the jar absent, at most once in a run; with the jar present it
\* reports success without a request, and without Java it exits with
\* status 1 without a request.
C5_FetcherRequests ==
  /\ [](script = "fetcher" =>
          /\ Count(ops, "urlretrieve") <= 1
          /\ Has(ops, "urlretrieve") => Has(log, "java_ok")
          /\ pc = "f_dl_wait" => ~jarExists
          /\ Has(log, "java_missing") =>
               /\ ~Has(ops, "urlretrieve")
               /\ pc = "exit" /\ result = "False" /\ exitStatus = 1)
  /\ [][(script = "fetcher" /\ jarExists /\ pc = "f_java_wait") =>
          /\ ~Has(ops', "urlretrieve")
          /\ \/ pc' = "exit" /\ exitStatus' = 1 /\ Has(log', "java_missing")
             \/ pc' = "exit" /\ exitStatus' = 0 /\ result' = "True"]_vars
  /\ [][Count(ops', "urlretrieve") > Count(ops, "urlretrieve") =>
          script = "fetcher" /\ ~jarExists /\ Has(log', "java_ok")]_vars

\* C5 witness: a run that found the jar and ended successfully with no
\* request made
C5_Witness ==
  /\ script = "fetcher" /\ pc = "exit" /\ jarExists
  /\ Has(log, "jar_already_exists") /\ ~Has(ops, "urlretrieve")
  /\ exitStatus = 0

\* entries with which log_message() reports a failure
FailureEntries ==
  {"java_missing", "download_failed", "keystore_creation_failed",
   "error_creating_keystore", "error_creating_keystore_timeout",
   "failed_to_read_keystore", "error_reading_keystore", "keystore_not_found",
   "keystore_validation_failed", "error_validating_keystore",
   "bundletool_not_found", "apk_not_found", "aab_creation_failed",
   "aab_not_created", "signing_failed_stderr", "signing_failed_exception",
   "signing_failed_timeout", "warn_signing_failed", "aab_not_found",
   "could_not_read_manifest", "failed_to_get_info",
   "failed_to_get_info_timeout"}

\* C6: whenever an operation of a script has reported a failure (it has
\* returned False, or the script exits with status 1 after it was entered),
\* the entries the script has appended to its log file in this run include
\* one that reports the failure.
C6_FailuresLogged ==
  (script # "none" /\ ops # <<>> /\ pc = "exit"
     /\ (result = "False" \/ exitStatus = 1)) =>
    \E i \in 1..Len(log) : log[i] \in FailureEntries

\* C7: every script that has started eventually ends, even if the external
\* tools it invokes never return (each invocation being cut by a timeout).
C7_ToolCallsTimeOut ==
  (script # "none") ~> (script = "none")

\* C8 as stated: after a successful process_apk the archive at the output
\* path has exactly the entries base/universal.apk and BundleConfig.pb,
\* with signing enabled or disabled.
C8_ExactlyTwoEntries ==
  (script = "converter" /\ pc = "exit" /\ result = "True") =>
    OutputFile = File(BundleEntries)

\* C8 amended: after a successful process_apk the archive at the output
\* path contains base/universal.apk and BundleConfig.pb and, besides them,
\* nothing but the entries the signing tool has added under META-INF/:
\* none when signing is disabled or jarsigner has exited non-zero or not
\* started, all of them when jarsigner has succeeded.
C8_TwoEntriesPlusSignature ==
  (script = "converter" /\ pc = "exit" /\ result = "True") =>
    /\ OutputFile.exists
    /\ BundleEntries \subseteq OutputFile.entries
    /\ OutputFile.entries \ BundleEntries \in {{}, SignatureEntries}
    /\ (\/ ~sign
        \/ Has(log, "signing_failed_stderr")
        \/ Has(log, "signing_failed_exception"))
         => OutputFile.entries = BundleEntries
    /\ Has(log, "aab_signed") =>
         OutputFile.entries = BundleEntries \cup SignatureEntries

\* C8 witness: a successful run whose archive has been signed in place
C8_Witness ==
  /\ script = "converter" /\ pc = "exit" /\ result = "True"
  /\ sign /\ Has(log, "aab_signed")
  /\ OutputFile.entries = BundleEntries \cup SignatureEntries

\* C9: the output path lies in the output directory; its name has no space
\* and ends in .aab; before .aab it is the input's base name without its
\* final extension, character by character, with "_" for every space; and
\* it is the same for the base name alone as for the whole input path.
C9_OutputName ==
  pc = "derived" =>
    LET name == output_aab.name
        stem == PathStem(apk_path)
        body == SubSeq(name, 1, Len(name) - Len(AabSuffix))
    IN  /\ output_aab.dir = OutputDir
        /\ ~Has(name, " ")
        /\ Len(name) >= Len(AabSuffix)
        /\ SubSeq(name, Len(name) - Len(AabSuffix) + 1, Len(name)) = AabSuffix
        /\ Len(body) = Len(stem)
        /\ \A i \in 1..Len(stem) :
             body[i] = IF stem[i] = " " THEN "_" ELSE stem[i]
        /\ ~Has(stem, "/")
        /\ OutputAab(PathName(apk_path)) = output_aab

\* C9 witness: an input in a directory, with an extension and with two
\* spaces in its base name
C9_Witness ==
  /\ pc = "derived"
  /\ Has(apk_path, "/")
  /\ PathStem(apk_path) # PathName(apk_path)
  /\ Count(PathStem(apk_path), " ") >= 2
  /\ Count(output_aab.name, "_") >= 2

\* C10: for a missing file the analyzer prints the not-found failure without
\* a stat or a zip open; for a file that is not a zip it prints the
\* not-a-valid-archive failure and no other failure; both return False and
\* exit with status 1; it returns True and exits with status 0 exactly when
\* the file exists and is opened and listed as a zip without error.
C10_AnalyzerFailures ==
  (script = "analyzer" /\ ops # <<>>) =>
    /\ aabKind = "missing" =>
         /\ pc = "exit" /\ ops = <<"exists">>
         /\ console = <<"aab_not_found">>
    /\ aabKind # "missing" => SubSeq(ops, 1, 2) = <<"exists", "stat">>
    /\ (pc = "exit" /\ aabKind = "notzip") =>
         /\ Has(console, "not_a_valid_zip")
         /\ ~Has(console, "aab_not_found")
         /\ ~Has(console, "error_analyzing")
    /\ pc = "exit" =>
         /\ result \in {"True", "False"}
         /\ result = "True" <=> (aabKind = "zip" /\ Has(ops, "zipopen"))
         /\ exitStatus = IF result = "True" THEN 0 ELSE 1
         /\ Has(console, "not_a_valid_zip") => aabKind = "notzip"
         /\ Has(console, "aab_not_found") => aabKind = "missing"

\* C10 witness: a run on a file that is not a zip
C10_Witness ==
  /\ script = "analyzer" /\ pc = "exit" /\ aabKind = "notzip"
  /\ Has(ops, "zipopen") /\ result = "False" /\ exitStatus = 1

====
